---- MODULE Spec2Model ----
(***************************************************************************)
(* Model of the timestamp-block plugin: the block detector                 *)
(* (block-detector.ts), the timestamp service (timestamp-service.ts) and    *)
(* the auto-stamp controller of the plugin entry point (main.ts).           *)
(*                                                                          *)
(* A line of text is a sequence of one-character strings; a document is a   *)
(* sequence of lines.  Line numbers are 0-based as in the editor API, so    *)
(* line n of document d is d[n + 1].                                        *)
(***************************************************************************)
EXTENDS Integers, Sequences, FiniteSets, TLC

VARIABLES
  doc,       \* the lines of the document in the active editor
  cursor,    \* the caret, [line, ch]
  settings,  \* the plugin settings
  variant,   \* which registerEditorEvents is installed: "cm6" or "keydown"
  phase,     \* position in the current event-loop task
  update,    \* the change (or key event) the current task is about
  deferred,  \* callbacks queued with requestAnimationFrame / setTimeout
  actions,   \* number of user actions so far
  result     \* result of the last block-detector query

vars == <<doc, cursor, settings, variant, phase, update, deferred, actions,
         result>>

(***************************************************************************)
(* Bounds of the model.                                                     *)
(***************************************************************************)
MaxLines == 4

\* Number of user actions (keys and commands) in a behaviour.
MaxUserActions == 3

\* The number of rewrites applied to a line in SpecRewrite.
MaxRewrites == 2

\* Number of user actions in a behaviour of SpecLive.
MaxLiveActions == 2

\* Number of commands run in a behaviour of SpecCommands.
MaxCommands == 2

\* A queued callback runs only while the document is shorter than this.
MaxDocLines == 8

(***************************************************************************)
(* String primitives of the JavaScript runtime, on sequences of characters. *)
(***************************************************************************)
\* The backtick character (a string literal cannot hold it).
Backtick == "backtick"

IsWS(c) == c \in {" ", "\t"}

IsDigit(c) == c \in {"0", "1", "2", "3", "4", "5", "6", "7", "8", "9"}

RECURSIVE trimStart(_)
trimStart(str) ==
  IF str # <<>> /\ IsWS(Head(str)) THEN trimStart(Tail(str)) ELSE str

RECURSIVE trimEnd(_)
trimEnd(str) ==
  IF str # <<>> /\ IsWS(str[Len(str)])
  THEN trimEnd(SubSeq(str, 1, Len(str) - 1))
  ELSE str

trim(str) == trimEnd(trimStart(str))

startsWith(str, p) == Len(p) <= Len(str) /\ SubSeq(str, 1, Len(p)) = p

toLowerChar(c) ==
  CASE c = "L" -> "l"
    [] c = "O" -> "o"
    [] c = "S" -> "s"
    [] OTHER -> c

toLowerCase(str) == [i \in 1..Len(str) |-> toLowerChar(str[i])]

\* String.prototype.indexOf(needle, from): first index >= from (0-based)
\* at which needle occurs, or -1.
indexOf(str, needle, from) ==
  LET hits == {i \in from..(Len(str) - Len(needle)) :
                 SubSeq(str, i + 1, i + Len(needle)) = needle}
  IN IF hits = {} THEN -1 ELSE CHOOSE i \in hits : \A j \in hits : i <= j

\* Number of leading characters of str satisfying the '#' test.
RECURSIVE LeadingHashes(_)
LeadingHashes(str) ==
  IF str # <<>> /\ Head(str) = "#" THEN 1 + LeadingHashes(Tail(str)) ELSE 0

(***************************************************************************)
(* Settings (types: TimestampBlockSettings, DEFAULT_SETTINGS).              *)
(* The rendered output of the date engine for the configured format stands  *)
(* for timestampFormat; the fence language is one token.                    *)
(***************************************************************************)
HeaderTextLog == <<"#", "#", " ", "L", "o", "g">>

\* The two header patterns of the model: the default pattern, which
\* compiles, and a pattern the regular-expression engine rejects.
DefaultHeaderPattern == "^#{1,6}\\s*(log|journal|notes|timestamps?)\\s*$"
InvalidHeaderPattern == "("

DEFAULT_SETTINGS ==
  [ timestampFormat |-> "YYYY-MM-DD HH:mm",
    blockIdentifier |-> "header",
    headerText |-> HeaderTextLog,
    useAdvancedHeaderPattern |-> FALSE,
    headerPattern |-> DefaultHeaderPattern,
    fenceLanguage |-> <<"t">>,
    timestampPrefix |-> <<"[">>,
    timestampSuffix |-> <<"]", " ">>,
    autoTimestamp |-> TRUE,
    includeOnEmptyLine |-> FALSE ]

(***************************************************************************)
(* Document accessor (Editor.getLine, Editor.lineCount).                    *)
(***************************************************************************)
getLine(d, n) == d[n + 1]

lineCount(d) == Len(d)

(***************************************************************************)
(* BlockDetector                                                            *)
(***************************************************************************)
\* /^#{1,6}\s/
anyHeaderRegex(lineText) ==
  \E k \in 1..6 :
    /\ Len(lineText) > k
    /\ \A j \in 1..k : lineText[j] = "#"
    /\ IsWS(lineText[k + 1])

\* new RegExp("^#{1,level}\s")
sameOrHigherHeader(level, lineText) ==
  \E k \in 1..level :
    /\ Len(lineText) > k
    /\ \A j \in 1..k : lineText[j] = "#"
    /\ IsWS(lineText[k + 1])

\* new RegExp(pattern, 'i'): whether the pattern compiles.
RegExpCompiles(pattern) == pattern = DefaultHeaderPattern

\* The words of the default header pattern.
DefaultPatternWords ==
  { <<"l", "o", "g">>,
    <<"j", "o", "u", "r", "n", "a", "l">>,
    <<"n", "o", "t", "e", "s">>,
    <<"t", "i", "m", "e", "s", "t", "a", "m", "p">>,
    <<"t", "i", "m", "e", "s", "t", "a", "m", "p", "s">> }

\* headerRegex.test(lineText) for the default pattern, case-insensitive:
\* 1 to 6 '#', optional whitespace, one of the words, optional whitespace.
RegExpTest(pattern, lineText) ==
  LET k == LeadingHashes(lineText)
  IN /\ k \in 1..6
     /\ toLowerCase(trim(SubSeq(lineText, k + 1, Len(lineText))))
          \in DefaultPatternWords

simpleHeaderMatch(s, lineText) ==
  toLowerCase(trim(lineText)) = toLowerCase(trim(s.headerText))

\* Variant of the matcher that matches nothing when the pattern does not
\* compile.
matchesHeaderPatternNoFallback(s, lineText) ==
  IF s.useAdvancedHeaderPattern
  THEN IF RegExpCompiles(s.headerPattern)
       THEN RegExpTest(s.headerPattern, lineText)
       ELSE FALSE
  ELSE simpleHeaderMatch(s, lineText)

matchesHeaderPattern(s, lineText) ==
  IF s.useAdvancedHeaderPattern
  THEN IF RegExpCompiles(s.headerPattern)
       THEN RegExpTest(s.headerPattern, lineText)
       ELSE simpleHeaderMatch(s, lineText)
  ELSE simpleHeaderMatch(s, lineText)

\* Variant of the loop that scans on past a heading that does not match.
RECURSIVE isUnderTimestampHeaderLoopSkip(_, _, _)
isUnderTimestampHeaderLoopSkip(s, d, i) ==
  IF i < 0 THEN FALSE
  ELSE IF anyHeaderRegex(getLine(d, i))
            /\ matchesHeaderPattern(s, getLine(d, i))
       THEN TRUE
       ELSE isUnderTimestampHeaderLoopSkip(s, d, i - 1)

\* The loop of isUnderTimestampHeader, at index i.
RECURSIVE isUnderTimestampHeaderLoop(_, _, _)
isUnderTimestampHeaderLoop(s, d, i) ==
  IF i < 0 THEN FALSE
  ELSE IF anyHeaderRegex(getLine(d, i))
       THEN matchesHeaderPattern(s, getLine(d, i))
       ELSE isUnderTimestampHeaderLoop(s, d, i - 1)

\* Variant of the test that starts the scan at the line itself.
isUnderTimestampHeaderInclusive(s, d, line) ==
  isUnderTimestampHeaderLoop(s, d, line)

isUnderTimestampHeader(s, d, line) ==
  isUnderTimestampHeaderLoop(s, d, line - 1)

fenceStart(s) == <<Backtick, Backtick, Backtick>> \o s.fenceLanguage

fenceEnd == <<Backtick, Backtick, Backtick>>

\* One iteration of the forward scan shared by isInTimestampFence and
\* findFenceBoundaries; st = [inFence, startLine].
fenceScanStep(s, d, i, st) ==
  LET lineText == trim(getLine(d, i))
  IN IF ~st.inFence /\ startsWith(lineText, fenceStart(s))
     THEN [inFence |-> TRUE, startLine |-> i]
     ELSE IF st.inFence /\ lineText = fenceEnd /\ i > st.startLine
          THEN [inFence |-> FALSE, startLine |-> -1]
          ELSE st

\* The forward scan for i = from .. line.
RECURSIVE fenceScan(_, _, _, _, _)
fenceScan(s, d, i, line, st) ==
  IF i > line THEN st
  ELSE fenceScan(s, d, i + 1, line, fenceScanStep(s, d, i, st))

\* Variant of the scan that stops before the queried line.
isInTimestampFenceExclusive(s, d, line) ==
  fenceScan(s, d, 0, line - 1, [inFence |-> FALSE, startLine |-> -1]).inFence

isInTimestampFence(s, d, line) ==
  fenceScan(s, d, 0, line, [inFence |-> FALSE, startLine |-> -1]).inFence

\* Variant of the dispatch that asks for both strategies in "both" mode.
isInTimestampBlockBothAnd(s, d, line) ==
  LET identifier == s.blockIdentifier
  IN IF identifier = "both"
     THEN isUnderTimestampHeader(s, d, line) /\ isInTimestampFence(s, d, line)
     ELSE \/ /\ identifier = "header"
             /\ isUnderTimestampHeader(s, d, line)
          \/ /\ identifier = "fence"
             /\ isInTimestampFence(s, d, line)

isInTimestampBlock(s, d, line) ==
  LET identifier == s.blockIdentifier
  IN \/ /\ identifier \in {"header", "both"}
        /\ isUnderTimestampHeader(s, d, line)
     \/ /\ identifier \in {"fence", "both"}
        /\ isInTimestampFence(s, d, line)

Null == [type |-> "null"]

\* Variant of the closing search that reports the close line itself.
RECURSIVE findFenceEndInclusive(_, _)
findFenceEndInclusive(d, i) ==
  IF i >= lineCount(d) THEN lineCount(d) - 1
  ELSE IF trim(getLine(d, i)) = fenceEnd THEN i
       ELSE findFenceEndInclusive(d, i + 1)

\* The closing search of findFenceBoundaries, at index i.
RECURSIVE findFenceEnd(_, _)
findFenceEnd(d, i) ==
  IF i >= lineCount(d) THEN lineCount(d) - 1
  ELSE IF trim(getLine(d, i)) = fenceEnd THEN i - 1
       ELSE findFenceEnd(d, i + 1)

findFenceBoundaries(s, d, line) ==
  LET st == fenceScan(s, d, 0, line, [inFence |-> FALSE, startLine |-> -1])
  IN IF ~st.inFence \/ st.startLine = -1
     THEN Null
     ELSE [start |-> st.startLine + 1,
           end |-> findFenceEnd(d, line + 1),
           type |-> "fence"]

\* Variant of the backward loop that scans on past a heading that does not
\* match.
RECURSIVE findHeaderStartSkip(_, _, _)
findHeaderStartSkip(s, d, i) ==
  IF i < 0 THEN [startLine |-> -1, headerLevel |-> 0]
  ELSE IF anyHeaderRegex(getLine(d, i))
            /\ matchesHeaderPattern(s, getLine(d, i))
       THEN [startLine |-> i,
             headerLevel |-> LET k == LeadingHashes(getLine(d, i))
                             IN IF k > 6 THEN 6 ELSE k]
       ELSE findHeaderStartSkip(s, d, i - 1)

\* The backward loop of findHeaderBoundaries, at index i: the heading that
\* starts the block as [startLine, headerLevel], startLine = -1 if the scan
\* ran out, or Null when a different heading was hit.
RECURSIVE findHeaderStart(_, _, _)
findHeaderStart(s, d, i) ==
  IF i < 0 THEN [startLine |-> -1, headerLevel |-> 0]
  ELSE IF anyHeaderRegex(getLine(d, i))
       THEN IF matchesHeaderPattern(s, getLine(d, i))
            THEN [startLine |-> i,
                  headerLevel |-> LET k == LeadingHashes(getLine(d, i))
                                  IN IF k > 6 THEN 6 ELSE k]
            ELSE Null
       ELSE findHeaderStart(s, d, i - 1)

\* The forward loop of findHeaderBoundaries, at index i.
RECURSIVE findHeaderEnd(_, _, _)
findHeaderEnd(d, level, i) ==
  IF i >= lineCount(d) THEN lineCount(d) - 1
  ELSE IF sameOrHigherHeader(level, getLine(d, i)) THEN i - 1
       ELSE findHeaderEnd(d, level, i + 1)

findHeaderBoundaries(s, d, line) ==
  LET h == findHeaderStart(s, d, line - 1)
  IN IF h = Null THEN Null
     ELSE IF h.startLine = -1 THEN Null
     ELSE [start |-> h.startLine + 1,
           end |-> findHeaderEnd(d, h.headerLevel, line + 1),
           type |-> "header"]

\* Variant of the dispatch that tries the header strategy first.
findBlockBoundariesHeaderFirst(s, d, line) ==
  LET identifier == s.blockIdentifier
      fenceBounds == IF identifier \in {"fence", "both"}
                     THEN findFenceBoundaries(s, d, line) ELSE Null
      headerBounds == IF identifier \in {"header", "both"}
                      THEN findHeaderBoundaries(s, d, line) ELSE Null
  IN IF headerBounds # Null THEN headerBounds
     ELSE IF fenceBounds # Null THEN fenceBounds
     ELSE Null

findBlockBoundaries(s, d, line) ==
  LET identifier == s.blockIdentifier
      fenceBounds == IF identifier \in {"fence", "both"}
                     THEN findFenceBoundaries(s, d, line) ELSE Null
      headerBounds == IF identifier \in {"header", "both"}
                      THEN findHeaderBoundaries(s, d, line) ELSE Null
  IN IF fenceBounds # Null THEN fenceBounds
     ELSE IF headerBounds # Null THEN headerBounds
     ELSE Null

(***************************************************************************)
(* Specification of the block detector: the document and the configuration  *)
(* are drawn from bounded sets, the two queries are applied to a line.      *)
(***************************************************************************)
\* The lines a document is made of, per detection mode: headings of
\* several depths and spellings, content, fence delimiters.
DetectLines(mode) ==
  CASE mode = "header" ->
         { HeaderTextLog,
           <<"#", "#", " ", "l", "o", "g", " ">>,
           <<"#", "#", " ", "O">>,
           <<"#", "#", "#", " ", "S">>,
           <<"#", " ", "L", "o", "g">>,
           <<"a">> }
    [] mode = "fence" ->
         { <<Backtick, Backtick, Backtick, "t">>,
           <<" ", Backtick, Backtick, Backtick>>,
           <<"a">>,
           HeaderTextLog }
    [] OTHER ->
         { HeaderTextLog,
           <<"#", "#", " ", "O">>,
           <<"#", "#", "#", " ", "S">>,
           <<"a">>,
           <<Backtick, Backtick, Backtick, "t">>,
           <<" ", Backtick, Backtick, Backtick>> }

DetectDocs(mode) == UNION { [1..n -> DetectLines(mode)] : n \in 1..MaxLines }

DetectConfigs ==
  { [DEFAULT_SETTINGS EXCEPT !.blockIdentifier = m] :
      m \in {"header", "fence", "both"} }
  \cup
  { [DEFAULT_SETTINGS EXCEPT !.useAdvancedHeaderPattern = TRUE,
                             !.headerPattern = p] :
      p \in {DefaultHeaderPattern, InvalidHeaderPattern} }

NoResult == [op |-> "none"]

NoUpdate == [docChanged |-> FALSE, changes |-> <<>>, hostPending |-> <<>>]

InitDetect ==
  /\ settings \in DetectConfigs
  /\ doc \in DetectDocs(settings.blockIdentifier)
  /\ cursor = [line |-> 0, ch |-> 0]
  /\ variant = "cm6"
  /\ phase = "idle"
  /\ update = NoUpdate
  /\ deferred = <<>>
  /\ actions = 0
  /\ result = NoResult

IsInRegionQuery(n) ==
  /\ result' = [op |-> "isInRegion", line |-> n,
                value |-> isInTimestampBlock(settings, doc, n)]
  /\ UNCHANGED <<doc, cursor, settings, variant, phase, update, deferred, actions>>

FindBoundariesQuery(n) ==
  /\ result' = [op |-> "findBoundaries", line |-> n,
                value |-> findBlockBoundaries(settings, doc, n)]
  /\ UNCHANGED <<doc, cursor, settings, variant, phase, update, deferred, actions>>

NextDetect ==
  \E n \in 0..(lineCount(doc) - 1) :
    \/ IsInRegionQuery(n)
    \/ FindBoundariesQuery(n)

SpecDetect == InitDetect /\ [][NextDetect]_vars

(***************************************************************************)
(* TimestampService                                                         *)
(***************************************************************************)
SuffixSearchWindow == 50

\* window.moment().format(formatStr): the date as rendered by the engine
\* for the format string, abbreviated to one token per format.
momentFormat(formatStr) ==
  CASE formatStr = "YYYY-MM-DD HH:mm" -> <<"T">>
    [] OTHER -> <<"t">>

formatTimestamp(s) == momentFormat(s.timestampFormat)

createFullTimestamp(s) ==
  s.timestampPrefix \o formatTimestamp(s) \o s.timestampSuffix

createTimestampedLine(s, content) == createFullTimestamp(s) \o content

\* Variant of the detection that does not reject an empty prefix.
lineHasTimestampAnyPrefix(s, line) ==
  LET trimmed == trimStart(line)
      prefix == s.timestampPrefix
      suffix == s.timestampSuffix
  IN IF ~startsWith(trimmed, prefix) THEN FALSE
     ELSE IF suffix # <<>>
          THEN LET suffixIndex == indexOf(trimmed, suffix, Len(prefix))
               IN suffixIndex > Len(prefix) /\ suffixIndex < SuffixSearchWindow
          ELSE TRUE

lineHasTimestamp(s, line) ==
  LET trimmed == trimStart(line)
      prefix == s.timestampPrefix
      suffix == s.timestampSuffix
  IN IF prefix = <<>> THEN FALSE
     ELSE IF ~startsWith(trimmed, prefix) THEN FALSE
     ELSE IF suffix # <<>>
          THEN LET suffixIndex == indexOf(trimmed, suffix, Len(prefix))
               IN suffixIndex > Len(prefix) /\ suffixIndex < SuffixSearchWindow
          ELSE TRUE

(***************************************************************************)
(* Line rewriting (main.ts).                                                *)
(***************************************************************************)
\* line.match(/^(\s*)/)[1]
leadingWhitespaceOf(line) ==
  SubSeq(line, 1, Len(line) - Len(trimStart(line)))

RECURSIVE LeadingDigits(_)
LeadingDigits(str) ==
  IF str # <<>> /\ IsDigit(Head(str)) THEN 1 + LeadingDigits(Tail(str)) ELSE 0

\* content.match(/^([-*+]|\d+\.)\s*/): the matched text, <<>> for no match.
listMarkerMatch(content) ==
  LET nd == LeadingDigits(content)
      core == IF content # <<>> /\ Head(content) \in {"-", "*", "+"} THEN 1
              ELSE IF nd >= 1 /\ Len(content) > nd /\ content[nd + 1] = "."
                   THEN nd + 1
                   ELSE 0
      rest == SubSeq(content, core + 1, Len(content))
  IN IF core = 0 THEN <<>>
     ELSE SubSeq(content, 1, core + (Len(rest) - Len(trimStart(rest))))

NoWrite == [write |-> FALSE]

\* Variant of the rewrite that does not look for a stamp on the line.
insertTimestampOnLineNoGuard(s, d, lineNumber) ==
  IF lineNumber < 0 \/ lineNumber >= lineCount(d) THEN NoWrite
  ELSE
    LET currentLine == getLine(d, lineNumber)
        isEmptyLine == trim(currentLine) = <<>>
        leadingWhitespace == leadingWhitespaceOf(currentLine)
        content == trimStart(currentLine)
        listMarker == listMarkerMatch(content)
        restOfContent == SubSeq(content, Len(listMarker) + 1, Len(content))
        timestamp == createFullTimestamp(s)
    IN IF FALSE THEN NoWrite
       ELSE IF listMarker # <<>>
       THEN [write |-> TRUE, line |-> lineNumber,
             text |-> leadingWhitespace \o listMarker \o timestamp
                        \o restOfContent,
             ch |-> Len(leadingWhitespace) + Len(listMarker) + Len(timestamp)]
       ELSE IF isEmptyLine
       THEN [write |-> TRUE, line |-> lineNumber,
             text |-> leadingWhitespace \o timestamp,
             ch |-> Len(leadingWhitespace) + Len(timestamp)]
       ELSE [write |-> TRUE, line |-> lineNumber,
             text |-> leadingWhitespace \o timestamp \o content,
             ch |-> Len(leadingWhitespace) + Len(timestamp)]

\* Variant of the rewrite that puts the stamp before a list marker.
insertTimestampOnLineStampFirst(s, d, lineNumber) ==
  IF lineNumber < 0 \/ lineNumber >= lineCount(d) THEN NoWrite
  ELSE
    LET currentLine == getLine(d, lineNumber)
        isEmptyLine == trim(currentLine) = <<>>
        leadingWhitespace == leadingWhitespaceOf(currentLine)
        content == trimStart(currentLine)
        listMarker == listMarkerMatch(content)
        restOfContent == SubSeq(content, Len(listMarker) + 1, Len(content))
        timestamp == createFullTimestamp(s)
    IN IF lineHasTimestamp(s, currentLine) THEN NoWrite
       ELSE IF listMarker # <<>>
       THEN [write |-> TRUE, line |-> lineNumber,
             text |-> leadingWhitespace \o timestamp \o content,
             ch |-> Len(leadingWhitespace) + Len(timestamp)]
       ELSE IF isEmptyLine
       THEN [write |-> TRUE, line |-> lineNumber,
             text |-> leadingWhitespace \o timestamp,
             ch |-> Len(leadingWhitespace) + Len(timestamp)]
       ELSE [write |-> TRUE, line |-> lineNumber,
             text |-> leadingWhitespace \o timestamp \o content,
             ch |-> Len(leadingWhitespace) + Len(timestamp)]

\* Variant of the rewrite that drops the indentation of a line of text.
insertTimestampOnLineTrimmed(s, d, lineNumber) ==
  IF lineNumber < 0 \/ lineNumber >= lineCount(d) THEN NoWrite
  ELSE
    LET currentLine == getLine(d, lineNumber)
        isEmptyLine == trim(currentLine) = <<>>
        leadingWhitespace == leadingWhitespaceOf(currentLine)
        content == trimStart(currentLine)
        listMarker == listMarkerMatch(content)
        restOfContent == SubSeq(content, Len(listMarker) + 1, Len(content))
        timestamp == createFullTimestamp(s)
    IN IF lineHasTimestamp(s, currentLine) THEN NoWrite
       ELSE IF listMarker # <<>>
       THEN [write |-> TRUE, line |-> lineNumber,
             text |-> leadingWhitespace \o listMarker \o timestamp
                        \o restOfContent,
             ch |-> Len(leadingWhitespace) + Len(listMarker) + Len(timestamp)]
       ELSE IF isEmptyLine
       THEN [write |-> TRUE, line |-> lineNumber,
             text |-> leadingWhitespace \o timestamp,
             ch |-> Len(leadingWhitespace) + Len(timestamp)]
       ELSE [write |-> TRUE, line |-> lineNumber,
             text |-> timestamp \o content,
             ch |-> Len(timestamp)]

\* Variant of the rewrite that leaves the list marker out of the caret offset.
insertTimestampOnLineCaretNoMarker(s, d, lineNumber) ==
  IF lineNumber < 0 \/ lineNumber >= lineCount(d) THEN NoWrite
  ELSE
    LET currentLine == getLine(d, lineNumber)
        isEmptyLine == trim(currentLine) = <<>>
        leadingWhitespace == leadingWhitespaceOf(currentLine)
        content == trimStart(currentLine)
        listMarker == listMarkerMatch(content)
        restOfContent == SubSeq(content, Len(listMarker) + 1, Len(content))
        timestamp == createFullTimestamp(s)
    IN IF lineHasTimestamp(s, currentLine) THEN NoWrite
       ELSE IF listMarker # <<>>
       THEN [write |-> TRUE, line |-> lineNumber,
             text |-> leadingWhitespace \o listMarker \o timestamp
                        \o restOfContent,
             ch |-> Len(leadingWhitespace) + Len(timestamp)]
       ELSE IF isEmptyLine
       THEN [write |-> TRUE, line |-> lineNumber,
             text |-> leadingWhitespace \o timestamp,
             ch |-> Len(leadingWhitespace) + Len(timestamp)]
       ELSE [write |-> TRUE, line |-> lineNumber,
             text |-> leadingWhitespace \o timestamp \o content,
             ch |-> Len(leadingWhitespace) + Len(timestamp)]

\* insertTimestampOnLine: the write it performs on line lineNumber of d, as
\* [write, line, text, ch], or NoWrite when it returns early.
\* (editor.getLine of a line that does not exist is taken to be undefined.)
insertTimestampOnLine(s, d, lineNumber) ==
  IF lineNumber < 0 \/ lineNumber >= lineCount(d) THEN NoWrite
  ELSE
    LET currentLine == getLine(d, lineNumber)
        isEmptyLine == trim(currentLine) = <<>>
        leadingWhitespace == leadingWhitespaceOf(currentLine)
        content == trimStart(currentLine)
        listMarker == listMarkerMatch(content)
        restOfContent == SubSeq(content, Len(listMarker) + 1, Len(content))
        timestamp == createFullTimestamp(s)
    IN IF lineHasTimestamp(s, currentLine) THEN NoWrite
       ELSE IF listMarker # <<>>
       THEN [write |-> TRUE, line |-> lineNumber,
             text |-> leadingWhitespace \o listMarker \o timestamp
                        \o restOfContent,
             ch |-> Len(leadingWhitespace) + Len(listMarker) + Len(timestamp)]
       ELSE IF isEmptyLine
       THEN [write |-> TRUE, line |-> lineNumber,
             text |-> leadingWhitespace \o timestamp,
             ch |-> Len(leadingWhitespace) + Len(timestamp)]
       ELSE [write |-> TRUE, line |-> lineNumber,
             text |-> leadingWhitespace \o timestamp \o content,
             ch |-> Len(leadingWhitespace) + Len(timestamp)]

\* Variant of the keydown rewrite that leaves a blank line alone when
\* includeOnEmptyLine is off.
insertTimestampOnNewLineSkipBlank(s, d, cur) ==
  LET currentLine == getLine(d, cur.line)
      isEmptyLine == trim(currentLine) = <<>>
      leadingWhitespace == leadingWhitespaceOf(currentLine)
      content == trimStart(currentLine)
      listMarker == listMarkerMatch(content)
      restOfContent == SubSeq(content, Len(listMarker) + 1, Len(content))
      timestamp == createFullTimestamp(s)
      timestampedLine ==
        IF listMarker # <<>>
        THEN leadingWhitespace \o listMarker
               \o createTimestampedLine(s, restOfContent)
        ELSE leadingWhitespace \o createTimestampedLine(s, content)
  IN IF isEmptyLine /\ ~s.includeOnEmptyLine
     THEN NoWrite
     ELSE IF ~isEmptyLine
     THEN IF lineHasTimestamp(s, currentLine) THEN NoWrite
          ELSE [write |-> TRUE, line |-> cur.line,
                text |-> timestampedLine,
                ch |-> indexOf(timestampedLine, timestamp, 0)
                         + Len(timestamp)]
     ELSE [write |-> TRUE, line |-> cur.line,
           text |-> leadingWhitespace \o timestamp,
           ch |-> Len(leadingWhitespace) + Len(timestamp)]

\* insertTimestampOnNewLine (keydown variant): the write it performs on the
\* line that holds the caret.
insertTimestampOnNewLine(s, d, cur) ==
  LET currentLine == getLine(d, cur.line)
      isEmptyLine == trim(currentLine) = <<>>
      leadingWhitespace == leadingWhitespaceOf(currentLine)
      content == trimStart(currentLine)
      listMarker == listMarkerMatch(content)
      restOfContent == SubSeq(content, Len(listMarker) + 1, Len(content))
      timestamp == createFullTimestamp(s)
      timestampedLine ==
        IF listMarker # <<>>
        THEN leadingWhitespace \o listMarker
               \o createTimestampedLine(s, restOfContent)
        ELSE leadingWhitespace \o createTimestampedLine(s, content)
  IN IF isEmptyLine /\ ~s.includeOnEmptyLine
     THEN [write |-> TRUE, line |-> cur.line,
           text |-> leadingWhitespace \o timestamp,
           ch |-> Len(leadingWhitespace) + Len(timestamp)]
     ELSE IF ~isEmptyLine
     THEN IF lineHasTimestamp(s, currentLine) THEN NoWrite
          ELSE [write |-> TRUE, line |-> cur.line,
                text |-> timestampedLine,
                ch |-> indexOf(timestampedLine, timestamp, 0)
                         + Len(timestamp)]
     ELSE [write |-> TRUE, line |-> cur.line,
           text |-> leadingWhitespace \o timestamp,
           ch |-> Len(leadingWhitespace) + Len(timestamp)]

\* The lines of a text: the text cut at its line-break characters.
RECURSIVE splitLines(_)
splitLines(text) ==
  IF indexOf(text, <<"\n">>, 0) = -1 THEN << text >>
  ELSE << SubSeq(text, 1, indexOf(text, <<"\n">>, 0)) >>
         \o splitLines(SubSeq(text, indexOf(text, <<"\n">>, 0) + 2, Len(text)))

\* Editor.setLine: line n is replaced by the text, which makes several
\* lines when it holds line-break characters.
setLine(d, n, text) ==
  SubSeq(d, 1, n) \o splitLines(text) \o SubSeq(d, n + 2, Len(d))

(***************************************************************************)
(* SpecRewrite: the stamp detection and the line rewriting as functions of  *)
(* a line and a configuration.  The document is the one line; result holds  *)
(* the last call, its input line and what it returned.                      *)
(***************************************************************************)
\* A run of n characters c.
RECURSIVE Repeat(_, _)
Repeat(c, n) == IF n = 0 THEN <<>> ELSE <<c>> \o Repeat(c, n - 1)

\* A line that opens with the default prefix and holds the default suffix
\* after a body of n characters.
LongLine(n) == <<"[">> \o Repeat("x", n) \o <<"]", " ">>

RewriteLines ==
  { <<>>,
    <<" ">>,
    <<"a">>,
    <<" ", "a">>,
    <<"-", " ">>,
    <<"-", " ", "a">>,
    <<" ", "-", " ", "a">>,
    <<"1", ".", " ", "a">>,
    <<"+", "a">>,
    <<"[", "T", "]", " ", "a">>,
    <<" ", "[", "T", "]", " ", "a">>,
    <<"-", " ", "[", "T", "]", " ", "a">>,
    <<"[", "]", " ", "a">>,
    <<"[", "T">>,
    <<"T", "]", " ", "a">>,
    <<"*", "T", "*", " ", "a">>,
    LongLine(48),
    LongLine(49),
    LongLine(55) }

\* Prefix and suffix as the settings tab lets the user set them: the
\* defaults, no prefix, no suffix, and a stamp set in asterisks.
RewriteConfigs ==
  { [DEFAULT_SETTINGS EXCEPT !.timestampPrefix = ps[1],
                             !.timestampSuffix = ps[2],
                             !.includeOnEmptyLine = e] :
      ps \in { << <<"[">>, <<"]", " ">> >>,
               << <<>>, <<"]", " ">> >>,
               << <<"[">>, <<>> >>,
               << <<"*">>, <<"*", " ">> >> },
      e \in BOOLEAN }

InitRewrite ==
  /\ settings \in RewriteConfigs
  /\ doc \in { <<l>> : l \in RewriteLines }
  /\ cursor = [line |-> 0, ch |-> 0]
  /\ variant = "cm6"
  /\ phase = "idle"
  /\ update = NoUpdate
  /\ deferred = <<>>
  /\ actions = 0
  /\ result = NoResult

\* TimestampService.lineHasTimestamp on the line.
HasTimestampQuery ==
  /\ result' = [op |-> "lineHasTimestamp", line |-> getLine(doc, 0),
                value |-> lineHasTimestamp(settings, getLine(doc, 0))]
  /\ UNCHANGED <<doc, cursor, settings, variant, phase, update, deferred, actions>>

\* The document and caret after the write w of a stamping function.
applyWrite(d, cur, w) ==
  IF w.write
  THEN [doc |-> setLine(d, w.line, w.text),
        cursor |-> [line |-> w.line, ch |-> w.ch]]
  ELSE [doc |-> d, cursor |-> cur]

\* insertTimestampOnLine on the line.
StampLine ==
  /\ actions < MaxRewrites
  /\ actions' = actions + 1
  /\ LET w == insertTimestampOnLine(settings, doc, 0)
     IN /\ result' = [op |-> "insertTimestampOnLine",
                      line |-> getLine(doc, 0), w |-> w]
        /\ doc' = applyWrite(doc, cursor, w).doc
        /\ cursor' = applyWrite(doc, cursor, w).cursor
  /\ UNCHANGED <<settings, variant, phase, update, deferred>>

\* insertTimestampOnNewLine with the caret on the line.
StampNewLine ==
  /\ actions < MaxRewrites
  /\ actions' = actions + 1
  /\ LET w == insertTimestampOnNewLine(settings, doc, [cursor EXCEPT !.line = 0])
     IN /\ result' = [op |-> "insertTimestampOnNewLine",
                      line |-> getLine(doc, 0), w |-> w]
        /\ doc' = applyWrite(doc, cursor, w).doc
        /\ cursor' = applyWrite(doc, cursor, w).cursor
  /\ UNCHANGED <<settings, variant, phase, update, deferred>>

NextRewrite ==
  \/ HasTimestampQuery
  \/ StampLine
  \/ StampNewLine

SpecRewrite == InitRewrite /\ [][NextRewrite]_vars

(***************************************************************************)
(* SpecSettings: loadSettings applied to what loadData returns.  In the     *)
(* initial state result holds the persisted record (Null when there is no   *)
(* data file) and the plugin has no settings yet.                           *)
(***************************************************************************)
\* A settings record that differs from the defaults at every key.
CustomSettings ==
  [ timestampFormat |-> "HH:mm",
    blockIdentifier |-> "both",
    headerText |-> <<"#", " ", "O">>,
    useAdvancedHeaderPattern |-> TRUE,
    headerPattern |-> InvalidHeaderPattern,
    fenceLanguage |-> <<"o">>,
    timestampPrefix |-> <<>>,
    timestampSuffix |-> <<" ">>,
    autoTimestamp |-> FALSE,
    includeOnEmptyLine |-> TRUE ]

\* The persisted records: no data file, or an object that holds some of the
\* keys (none of them, all of them).
PersistedRecords ==
  { Null } \cup
  { [k \in K |-> CustomSettings[k]] : K \in SUBSET (DOMAIN CustomSettings) }

\* Object.assign(target, source): the keys of source replace those of
\* target; a null source is skipped.
objectAssign(target, source) ==
  IF source = Null THEN target
  ELSE [k \in (DOMAIN target) \cup (DOMAIN source) |->
          IF k \in DOMAIN source THEN source[k] ELSE target[k]]

\* Variant of loadSettings that takes the persisted record as it is.
loadSettingsNoDefaults(data) ==
  IF data = Null THEN DEFAULT_SETTINGS ELSE data

\* loadSettings: Object.assign({}, DEFAULT_SETTINGS, await this.loadData()).
loadSettings(data) ==
  objectAssign(objectAssign(<<>>, DEFAULT_SETTINGS), data)

InitSettings ==
  /\ settings = Null
  /\ result \in { [op |-> "loadData", data |-> d] : d \in PersistedRecords }
  /\ doc = << <<>> >>
  /\ cursor = [line |-> 0, ch |-> 0]
  /\ variant = "cm6"
  /\ phase = "idle"
  /\ update = NoUpdate
  /\ deferred = <<>>
  /\ actions = 0

\* onload calls loadSettings once.
LoadSettings ==
  /\ result.op = "loadData"
  /\ settings' = loadSettings(result.data)
  /\ result' = [op |-> "loadSettings", data |-> result.data]
  /\ UNCHANGED <<doc, cursor, variant, phase, update, deferred, actions>>

NextSettings == LoadSettings

SpecSettings == InitSettings /\ [][NextSettings]_vars

(***************************************************************************)
(* SpecCommands: the editor commands of registerCommands, applied to a      *)
(* document with the caret somewhere in it.  result holds the last command  *)
(* with the document and the caret it was given.                            *)
(***************************************************************************)
\* Editor.replaceRange(text, pos): the document with text inserted at pos.
replaceRange(d, text, pos) ==
  LET lineText == getLine(d, pos.line)
      parts == splitLines(text)
      n == Len(parts)
      joined == [i \in 1..n |->
                  (IF i = 1 THEN SubSeq(lineText, 1, pos.ch) ELSE <<>>)
                    \o parts[i]
                    \o (IF i = n
                        THEN SubSeq(lineText, pos.ch + 1, Len(lineText))
                        ELSE <<>>)]
  IN SubSeq(d, 1, pos.line) \o joined \o SubSeq(d, pos.line + 2, Len(d))

createHeaderBlockTemplate(s) ==
  LET timestamp == createFullTimestamp(s)
      header == IF s.headerText # <<>> THEN s.headerText ELSE HeaderTextLog
  IN <<"\n">> \o header \o <<"\n">> \o timestamp

createFenceBlockTemplate(s) ==
  LET timestamp == createFullTimestamp(s)
  IN <<"\n">> \o <<Backtick, Backtick, Backtick>> \o s.fenceLanguage
       \o <<"\n">> \o timestamp
       \o <<"\n">> \o <<Backtick, Backtick, Backtick>> \o <<"\n">>

\* editorCallback of timestamp-current-line: the write it performs, as
\* [write, line, text], or NoWrite when the line has a timestamp.
timestampCurrentLine(s, d, cur) ==
  LET line == getLine(d, cur.line)
      leadingWhitespace == leadingWhitespaceOf(line)
      content == trimStart(line)
      timestampedLine == leadingWhitespace \o createTimestampedLine(s, content)
  IN IF lineHasTimestamp(s, line) THEN NoWrite
     ELSE [write |-> TRUE, line |-> cur.line, text |-> timestampedLine]

CommandLines ==
  { <<>>,
    <<"a">>,
    <<" ", "a">>,
    <<"-", " ", "a">>,
    <<" ", "1", ".", " ", "a">>,
    <<"[", "T", "]", " ", "a">> }

CommandDocs == UNION { [1..n -> CommandLines] : n \in 1..2 }

InitCommands ==
  /\ settings \in { [DEFAULT_SETTINGS EXCEPT !.headerText = h] :
                      h \in {HeaderTextLog, <<>>} }
  /\ doc \in CommandDocs
  /\ cursor \in { [line |-> l, ch |-> c] :
                    l \in 0..1, c \in 0..1 }
  /\ cursor.line < lineCount(doc)
  /\ cursor.ch <= Len(getLine(doc, cursor.line))
  /\ variant = "cm6"
  /\ phase = "idle"
  /\ update = NoUpdate
  /\ deferred = <<>>
  /\ actions = 0
  /\ result = NoResult

\* The record of a command: its id, the document and the caret it got.
commandResult(id) == [op |-> id, doc |-> doc, cursor |-> cursor]

\* Command insert-timestamp.
InsertTimestamp ==
  /\ actions < MaxCommands
  /\ actions' = actions + 1
  /\ doc' = replaceRange(doc, createFullTimestamp(settings), cursor)
  /\ cursor' = [cursor EXCEPT !.ch = @ + Len(createFullTimestamp(settings))]
  /\ result' = commandResult("insert-timestamp")
  /\ UNCHANGED <<settings, variant, phase, update, deferred>>

\* Command insert-timestamp-block-header.
InsertTimestampBlockHeader ==
  /\ actions < MaxCommands
  /\ actions' = actions + 1
  /\ doc' = replaceRange(doc, createHeaderBlockTemplate(settings), cursor)
  /\ cursor' = [line |-> cursor.line + 2,
                ch |-> Len(createFullTimestamp(settings))]
  /\ result' = commandResult("insert-timestamp-block-header")
  /\ UNCHANGED <<settings, variant, phase, update, deferred>>

\* Command insert-timestamp-block-fence.
InsertTimestampBlockFence ==
  /\ actions < MaxCommands
  /\ actions' = actions + 1
  /\ doc' = replaceRange(doc, createFenceBlockTemplate(settings), cursor)
  /\ cursor' = [line |-> cursor.line + 1,
                ch |-> Len(createFullTimestamp(settings))]
  /\ result' = commandResult("insert-timestamp-block-fence")
  /\ UNCHANGED <<settings, variant, phase, update, deferred>>

\* Command timestamp-current-line.
TimestampCurrentLine ==
  /\ actions < MaxCommands
  /\ actions' = actions + 1
  /\ LET w == timestampCurrentLine(settings, doc, cursor)
     IN doc' = IF w.write THEN setLine(doc, w.line, w.text) ELSE doc
  /\ result' = commandResult("timestamp-current-line")
  /\ UNCHANGED <<cursor, settings, variant, phase, update, deferred>>

NextCommands ==
  \/ InsertTimestamp
  \/ InsertTimestampBlockHeader
  \/ InsertTimestampBlockFence
  \/ TimestampCurrentLine

SpecCommands == InitCommands /\ [][NextCommands]_vars

(***************************************************************************)
(* The auto-stamp controller and its environment (main.ts).                 *)
(*                                                                          *)
(* phase follows the event-loop task in progress:                           *)
(*   "idle"     no task is running; a queued callback or a new event may    *)
(*              start;                                                      *)
(*   "notify"   the editor has applied a change and is calling the update   *)
(*              listener (cm6 variant);                                     *)
(*   "host"     the listener has returned and the host still has a side     *)
(*              effect of the line break to apply in the same task;         *)
(*   "keydown"  the keydown listener is being called (keydown variant);     *)
(*   "default"  the keydown listener has returned and the host performs     *)
(*              the default action of the key.                              *)
(***************************************************************************)
HeaderDocs ==
  { << HeaderTextLog, <<"-", " ", "a">> >>,
    << HeaderTextLog, <<"a">>, <<"#", "#", " ", "O">> >> }

FenceDocs ==
  { << <<Backtick, Backtick, Backtick, "t">>, <<"a">>,
       <<Backtick, Backtick, Backtick>> >> }

\* The documents the editor starts with, per detection mode.
InitialDocs(mode) ==
  CASE mode = "header" -> HeaderDocs
    [] mode = "fence" -> FenceDocs
    [] OTHER -> HeaderDocs \cup FenceDocs

Init ==
  /\ settings \in { [DEFAULT_SETTINGS EXCEPT !.blockIdentifier = m] :
                      m \in {"header", "fence", "both"} }
  /\ doc \in InitialDocs(settings.blockIdentifier)
  /\ cursor = [line |-> 0, ch |-> 0]
  /\ variant \in {"cm6", "keydown"}
  /\ phase = "idle"
  /\ update = NoUpdate
  /\ deferred = <<>>
  /\ actions = 0
  /\ result = NoResult

\* The markup the host may continue on the line created by a line break at
\* column c of lineText: nothing, or the list marker of the line left.
hostContinuations(lineText, c) ==
  LET marker == leadingWhitespaceOf(lineText)
                  \o listMarkerMatch(trimStart(lineText))
  IN IF c = Len(lineText) /\ listMarkerMatch(trimStart(lineText)) # <<>>
     THEN {<<>>, marker}
     ELSE {<<>>}

\* The document after a line break at (l, c), the new line starting with
\* the text lead.
splitLine(d, l, c, lead) ==
  LET lineText == getLine(d, l)
  IN SubSeq(d, 1, l)
       \o << SubSeq(lineText, 1, c),
             lead \o SubSeq(lineText, c + 1, Len(lineText)) >>
       \o SubSeq(d, l + 2, Len(d))

\* Number of line-break characters in a text.
RECURSIVE countNewlines(_)
countNewlines(text) ==
  IF text = <<>> THEN 0
  ELSE (IF Head(text) = "\n" THEN 1 ELSE 0) + countNewlines(Tail(text))

\* The user presses Enter with the caret at column c of line l (cm6
\* variant).  The host applies the line break in one transaction; it
\* continues the list markup of the line either in that transaction
\* (when = "same") or as a side effect later in the same task ("later").
UserLineBreak(l, c, lead, when) ==
  /\ variant = "cm6"
  /\ phase = "idle"
  /\ actions < MaxUserActions
  /\ actions' = actions + 1
  /\ lead \in hostContinuations(getLine(doc, l), c)
  /\ when = "later" => lead # <<>>
  /\ LET now == IF when = "same" THEN lead ELSE <<>>
     IN /\ doc' = splitLine(doc, l, c, now)
        /\ cursor' = [line |-> l + 1, ch |-> Len(now)]
        /\ update' = [docChanged |-> TRUE,
                      changes |-> << [fromLine |-> l,
                                      inserted |-> <<"\n">> \o now] >>,
                      hostPending |-> IF when = "later" THEN lead ELSE <<>>]
  /\ phase' = "notify"
  /\ UNCHANGED <<settings, variant, deferred, result>>

\* The scan of the update's changes by the update listener: the 0-based
\* line that holds the end of the last inserted text with a line break,
\* -1 when no line break was inserted.
RECURSIVE insertionLineOf(_, _)
insertionLineOf(changes, found) ==
  IF changes = <<>> THEN found
  ELSE LET ch == Head(changes)
       IN insertionLineOf(Tail(changes),
            IF countNewlines(ch.inserted) > 0
            THEN ch.fromLine + countNewlines(ch.inserted)
            ELSE found)

\* Variant of the decision that does not check the new line.
newlineArmTargetPrevOnly(s, d, upd) ==
  LET insertionLine == insertionLineOf(upd.changes, -1)
      previousLine == insertionLine - 1
  IN IF ~upd.docChanged THEN -1
     ELSE IF ~s.autoTimestamp THEN -1
     ELSE IF insertionLine < 0 THEN -1
     ELSE IF previousLine < 0 THEN -1
     ELSE IF ~isInTimestampBlock(s, d, previousLine) THEN -1
     ELSE insertionLine

\* Variant of the decision that does not check autoTimestamp.
newlineArmTargetNoAutoCheck(s, d, upd) ==
  LET insertionLine == insertionLineOf(upd.changes, -1)
      previousLine == insertionLine - 1
  IN IF ~upd.docChanged THEN -1
     ELSE IF insertionLine < 0 THEN -1
     ELSE IF previousLine < 0 THEN -1
     ELSE IF ~isInTimestampBlock(s, d, previousLine) THEN -1
     ELSE IF ~isInTimestampBlock(s, d, insertionLine) THEN -1
     ELSE insertionLine

\* The decision of the update listener: the line to stamp, -1 for none.
newlineArmTarget(s, d, upd) ==
  LET insertionLine == insertionLineOf(upd.changes, -1)
      previousLine == insertionLine - 1
  IN IF ~upd.docChanged THEN -1
     ELSE IF ~s.autoTimestamp THEN -1
     ELSE IF insertionLine < 0 THEN -1
     ELSE IF previousLine < 0 THEN -1
     ELSE IF ~isInTimestampBlock(s, d, previousLine) THEN -1
     ELSE IF ~isInTimestampBlock(s, d, insertionLine) THEN -1
     ELSE insertionLine

\* The tasks the update listener queues with requestAnimationFrame.
newlineListenerQueue(s, d, upd, q) ==
  IF newlineArmTarget(s, d, upd) >= 0
  THEN Append(q, [kind |-> "raf", lineNumber |-> newlineArmTarget(s, d, upd),
                 stale |-> FALSE])
  ELSE q

\* Variant of the listener that stamps the new line at once.
newlineListenerEditorSync(s, d, cur, upd) ==
  LET insertionLine == insertionLineOf(upd.changes, -1)
      w == insertTimestampOnLine(s, d, insertionLine)
  IN IF s.autoTimestamp /\ insertionLine >= 1
          /\ isInTimestampBlock(s, d, insertionLine - 1)
          /\ isInTimestampBlock(s, d, insertionLine)
          /\ w.write
     THEN [doc |-> setLine(d, w.line, w.text),
           cursor |-> [line |-> w.line, ch |-> w.ch]]
     ELSE [doc |-> d, cursor |-> cur]

\* The document and caret when the update listener returns.
newlineListenerEditor(s, d, cur, upd) == [doc |-> d, cursor |-> cur]

\* EditorView.updateListener callback of registerEditorEvents (cm6).
NewlineListener ==
  /\ phase = "notify"
  /\ deferred' = newlineListenerQueue(settings, doc, update, deferred)
  /\ doc' = newlineListenerEditor(settings, doc, cursor, update).doc
  /\ cursor' = newlineListenerEditor(settings, doc, cursor, update).cursor
  /\ phase' = IF update.hostPending # <<>> THEN "host" ELSE "idle"
  /\ UNCHANGED <<settings, variant, update, actions, result>>

\* The host applies the pending side effect of the line break: it puts the
\* continued list markup on the line that holds the caret.
HostContinueMarkup ==
  /\ phase = "host"
  /\ doc' = setLine(doc, cursor.line,
                    update.hostPending \o getLine(doc, cursor.line))
  /\ cursor' = [cursor EXCEPT !.ch = Len(update.hostPending)]
  /\ update' = [docChanged |-> TRUE,
                changes |-> << [fromLine |-> cursor.line,
                                inserted |-> update.hostPending] >>,
                hostPending |-> <<>>]
  /\ phase' = "notify"
  /\ UNCHANGED <<settings, variant, deferred, actions, result>>

\* The write of a queued callback: insertTimestampOnLine for a
\* requestAnimationFrame task, insertTimestampOnNewLine for a timeout.
deferredWrite(s, d, cur, task) ==
  IF task.kind = "raf"
  THEN insertTimestampOnLine(s, d, task.lineNumber)
  ELSE insertTimestampOnNewLine(s, d, cur)

\* Variant of the callback that stays queued until it has written.
RunDeferredRetry ==
  /\ phase = "idle"
  /\ deferred # <<>>
  /\ lineCount(doc) < MaxDocLines
  /\ LET w == deferredWrite(settings, doc, cursor, Head(deferred))
     IN IF w.write
        THEN /\ doc' = setLine(doc, w.line, w.text)
             /\ cursor' = [line |-> w.line, ch |-> w.ch]
             /\ deferred' = Tail(deferred)
             /\ IF variant = "cm6"
                THEN /\ phase' = "notify"
                     /\ update' = [docChanged |-> TRUE,
                                   changes |-> << [fromLine |-> w.line,
                                                   inserted |-> w.text] >>,
                                   hostPending |-> <<>>]
                ELSE UNCHANGED <<phase, update>>
        ELSE UNCHANGED <<doc, cursor, phase, update, deferred>>
  /\ UNCHANGED <<settings, variant, actions, result>>

\* The event loop runs the first queued callback.  Its setLine is a change
\* of the document, reported to the update listener of the cm6 variant.
RunDeferred ==
  /\ phase = "idle"
  /\ deferred # <<>>
  /\ lineCount(doc) < MaxDocLines
  /\ LET w == deferredWrite(settings, doc, cursor, Head(deferred))
     IN IF w.write
        THEN /\ doc' = setLine(doc, w.line, w.text)
             /\ cursor' = [line |-> w.line, ch |-> w.ch]
             /\ IF variant = "cm6"
                THEN /\ phase' = "notify"
                     /\ update' = [docChanged |-> TRUE,
                                   changes |-> << [fromLine |-> w.line,
                                                   inserted |-> w.text] >>,
                                   hostPending |-> <<>>]
                ELSE UNCHANGED <<phase, update>>
        ELSE UNCHANGED <<doc, cursor, phase, update>>
  /\ deferred' = Tail(deferred)
  /\ UNCHANGED <<settings, variant, actions, result>>

\* The document the editor shows after the user opens another file in the
\* tab.
OtherDoc == << <<"b">>, <<"b">> >>

\* The user opens another file in the tab of the editor.  The host keeps
\* the editor of the view and loads the other document into it; callbacks
\* already queued hold that editor.  The field stale of a queued callback
\* is not read by the program: it records that the document the callback
\* was queued for is no longer the one in the editor.
SwitchDocument ==
  /\ phase = "idle"
  /\ actions < MaxUserActions
  /\ actions' = actions + 1
  /\ doc' = OtherDoc
  /\ cursor' = [line |-> 0, ch |-> 0]
  /\ deferred' = [i \in DOMAIN deferred |-> [deferred[i] EXCEPT !.stale = TRUE]]
  /\ UNCHANGED <<settings, variant, phase, update, result>>

\* Command toggle-auto-timestamp.
ToggleAutoTimestamp ==
  /\ phase = "idle"
  /\ actions < MaxUserActions
  /\ actions' = actions + 1
  /\ settings' = [settings EXCEPT !.autoTimestamp = ~settings.autoTimestamp]
  /\ UNCHANGED <<doc, cursor, variant, phase, update, deferred, result>>

\* A change of the document that inserts no line break, as reported to the
\* update listener (cm6 variant only).
notifyChange(l, text) ==
  IF variant = "cm6"
  THEN /\ phase' = "notify"
       /\ update' = [docChanged |-> TRUE,
                     changes |-> << [fromLine |-> l, inserted |-> text] >>,
                     hostPending |-> <<>>]
  ELSE UNCHANGED <<phase, update>>

\* The user types a character at the end of line l.
UserType(l) ==
  /\ phase = "idle"
  /\ actions < MaxUserActions
  /\ actions' = actions + 1
  /\ doc' = setLine(doc, l, Append(getLine(doc, l), "a"))
  /\ cursor' = [line |-> l, ch |-> Len(getLine(doc, l)) + 1]
  /\ notifyChange(l, <<"a">>)
  /\ UNCHANGED <<settings, variant, deferred, result>>

\* The user presses Backspace at the start of line l: line l is joined to
\* the line above and the lines below move up.
UserJoinLines(l) ==
  /\ phase = "idle"
  /\ l >= 1
  /\ actions < MaxUserActions
  /\ actions' = actions + 1
  /\ doc' = SubSeq(doc, 1, l - 1)
              \o << getLine(doc, l - 1) \o getLine(doc, l) >>
              \o SubSeq(doc, l + 2, Len(doc))
  /\ cursor' = [line |-> l - 1, ch |-> Len(getLine(doc, l - 1))]
  /\ notifyChange(l - 1, <<>>)
  /\ UNCHANGED <<settings, variant, deferred, result>>

\* The user presses Enter with the caret at column c of line l (keydown
\* variant): the keydown listener is called before the host performs the
\* default action of the key.
UserKeydownEnter(l, c, lead) ==
  /\ variant = "keydown"
  /\ phase = "idle"
  /\ actions < MaxUserActions
  /\ actions' = actions + 1
  /\ lead \in hostContinuations(getLine(doc, l), c)
  /\ cursor' = [line |-> l, ch |-> c]
  /\ update' = [docChanged |-> FALSE, changes |-> <<>>, hostPending |-> lead]
  /\ phase' = "keydown"
  /\ UNCHANGED <<doc, settings, variant, deferred, result>>

\* The tasks the keydown listener queues with setTimeout.
keydownListenerQueue(s, d, cur, q) ==
  IF ~s.autoTimestamp THEN q
  ELSE IF ~isInTimestampBlock(s, d, cur.line) THEN q
  ELSE Append(q, [kind |-> "timeout", lineNumber |-> -1, stale |-> FALSE])

\* keydown callback of registerEditorEvents (keydown variant).
KeydownListener ==
  /\ phase = "keydown"
  /\ deferred' = keydownListenerQueue(settings, doc, cursor, deferred)
  /\ phase' = "default"
  /\ UNCHANGED <<doc, cursor, settings, variant, update, actions, result>>

\* The host performs the default action of Enter: the line break, with the
\* list markup it continues.
HostDefaultEnter ==
  /\ phase = "default"
  /\ doc' = splitLine(doc, cursor.line, cursor.ch, update.hostPending)
  /\ cursor' = [line |-> cursor.line + 1, ch |-> Len(update.hostPending)]
  /\ update' = [update EXCEPT !.hostPending = <<>>]
  /\ phase' = "idle"
  /\ UNCHANGED <<settings, variant, deferred, actions, result>>

Next ==
  \/ \E l \in 0..(lineCount(doc) - 1) :
       \E c \in {0, Len(getLine(doc, l))} :
         \E lead \in hostContinuations(getLine(doc, l), c) :
           \/ \E when \in {"same", "later"} : UserLineBreak(l, c, lead, when)
           \/ UserKeydownEnter(l, c, lead)
  \/ NewlineListener
  \/ HostContinueMarkup
  \/ RunDeferred
  \/ ToggleAutoTimestamp
  \/ SwitchDocument
  \/ \E l \in 0..(lineCount(doc) - 1) : UserType(l)
  \/ \E l \in 0..(lineCount(doc) - 1) : UserJoinLines(l)
  \/ KeydownListener
  \/ HostDefaultEnter

Spec == Init /\ [][Next]_vars

\* What the event loop does next by itself: the rest of the task that is
\* running (a listener that has been called returns, the host finishes the
\* action it has begun) or, when no task is running, the first queued
\* animation-frame or timer callback.
EventLoopStep ==
  \/ NewlineListener
  \/ HostContinueMarkup
  \/ KeydownListener
  \/ HostDefaultEnter
  \/ RunDeferred

\* The event loop does not stop while it has something to run.  Nothing is
\* assumed of the user.
Fairness == WF_vars(EventLoopStep)

\* The initial states of SpecLive: the default settings and a log section
\* that holds a list item, under either variant, with MaxLiveActions user
\* actions to come.
InitLive ==
  /\ settings = DEFAULT_SETTINGS
  /\ doc = << HeaderTextLog, <<"-", " ", "a">> >>
  /\ cursor = [line |-> 0, ch |-> 0]
  /\ variant \in {"cm6", "keydown"}
  /\ phase = "idle"
  /\ update = NoUpdate
  /\ deferred = <<>>
  /\ actions = MaxUserActions - MaxLiveActions
  /\ result = NoResult

SpecLive == InitLive /\ [][Next]_vars /\ Fairness

\* A suffix as a hand-edited data file can hold it: it ends with a line
\* break.
LineBreakSuffix == <<"]", "\n">>

\* The initial states of SpecChain: a log heading under a log heading,
\* then a list item; the default suffix or one that holds a line break.
InitChain ==
  /\ settings \in { [DEFAULT_SETTINGS EXCEPT !.timestampSuffix = x] :
                      x \in {DEFAULT_SETTINGS.timestampSuffix,
                             LineBreakSuffix} }
  /\ doc = << HeaderTextLog, HeaderTextLog, <<"-", " ", "a">> >>
  /\ cursor = [line |-> 0, ch |-> 0]
  /\ variant \in {"cm6", "keydown"}
  /\ phase = "idle"
  /\ update = NoUpdate
  /\ deferred = <<>>
  /\ actions = MaxUserActions - MaxLiveActions
  /\ result = NoResult

SpecChain == InitChain /\ [][Next]_vars

(***************************************************************************)
(* Properties of the block detector (checked under SpecDetect).             *)
(***************************************************************************)
SetMax(S) == CHOOSE x \in S : \A y \in S : y <= x

SetMin(S) == CHOOSE x \in S : \A y \in S : x <= y

LastLine == lineCount(doc) - 1

\* Line i of the document is structurally a heading / a heading that the
\* configured matcher accepts / a heading it rejects.
IsHeadingAt(i) == anyHeaderRegex(getLine(doc, i))

IsLogHeadingAt(i) ==
  IsHeadingAt(i) /\ matchesHeaderPattern(settings, getLine(doc, i))

IsOtherHeadingAt(i) ==
  IsHeadingAt(i) /\ ~matchesHeaderPattern(settings, getLine(doc, i))

HeadingDepthAt(i) == LeadingHashes(getLine(doc, i))

\* Line i, trimmed, starts with the open token / is the bare close token.
IsOpenTokenAt(i) == startsWith(trim(getLine(doc, i)), fenceStart(settings))

IsCloseTokenAt(i) == trim(getLine(doc, i)) = fenceEnd

\* Line i opens a fence: it carries the open token and the scan is not
\* inside a fence when it reaches it.
IsFenceOpenerAt(i) ==
  /\ IsOpenTokenAt(i)
  /\ (i = 0 \/ ~isInTimestampFence(settings, doc, i - 1))

HeaderQuery(op) ==
  result.op = op /\ settings.blockIdentifier = "header"

FenceQuery(op) ==
  result.op = op /\ settings.blockIdentifier = "fence"

\* C1: in Header mode isInRegion(doc, n) is true exactly when the first
\* structural heading met scanning n-1 down to 0 matches the configured
\* heading matcher; it is false when that heading does not match and when
\* there is no structural heading above n.
C1_HeaderMembership ==
  HeaderQuery("isInRegion") =>
    LET n == result.line
        above == {i \in 0..(n - 1) : IsHeadingAt(i)}
    IN result.value = (above # {} /\ IsLogHeadingAt(SetMax(above)))

\* C1 witness: a log heading lies above the queried line, but a different
\* heading is met first, and the line is reported out of region.
C1_Witness ==
  /\ HeaderQuery("isInRegion")
  /\ result.value = FALSE
  /\ \E i \in 0..(result.line - 1) : IsLogHeadingAt(i)
  /\ \E i \in 0..(result.line - 1) : IsOtherHeadingAt(i)

\* C2: in Header mode with the exact-text matcher, when the log heading h is
\* followed by content lines and then by a different heading o of the same
\* depth, isInRegion is true for the content lines between h and o, false
\* for line o itself and false for every line below o.
C2_HeaderExample ==
  (HeaderQuery("isInRegion") /\ ~settings.useAdvancedHeaderPattern) =>
    \A h \in 0..LastLine : \A o \in (h + 2)..LastLine :
      ( /\ IsLogHeadingAt(h)
        /\ \A i \in 0..LastLine : IsLogHeadingAt(i) => i = h
        /\ \A i \in (h + 1)..(o - 1) : ~IsHeadingAt(i)
        /\ IsOtherHeadingAt(o)
        /\ HeadingDepthAt(o) = HeadingDepthAt(h) )
      =>
      LET n == result.line
      IN /\ (n \in (h + 1)..(o - 1)) => result.value = TRUE
         /\ (n >= o) => result.value = FALSE

\* C3: in Fence mode isInRegion(doc, n) is the inside-fence flag after a
\* forward pass over lines 0..n: the flag turns true on an open-token line
\* met while outside and false on a bare close-token line met while inside.
\* Hence the lines of a fence up to its close are in region, the close line
\* and the lines after it (up to the next opener) are not, and an
\* unterminated fence reaches the end of the document.
C3_FenceMembership ==
  FenceQuery("isInRegion") =>
    LET n == result.line
        before == IF n = 0 THEN FALSE
                  ELSE isInTimestampFence(settings, doc, n - 1)
    IN /\ result.value = (IF before THEN ~IsCloseTokenAt(n)
                                    ELSE IsOpenTokenAt(n))
       /\ \A o \in 0..n :
            (IsFenceOpenerAt(o) /\ \A j \in (o + 1)..n : ~IsCloseTokenAt(j))
              => result.value = TRUE
       /\ \A o \in 0..n : \A c \in (o + 1)..n :
            ( /\ IsFenceOpenerAt(o)
              /\ IsCloseTokenAt(c)
              /\ \A j \in (o + 1)..(c - 1) : ~IsCloseTokenAt(j)
              /\ \A j \in (c + 1)..n : ~IsOpenTokenAt(j) )
              => result.value = FALSE

\* C3 witness: the queried line is the last line of the document, it lies
\* below the opener of a fence that is never closed, and it is in region.
C3_Witness ==
  /\ FenceQuery("isInRegion")
  /\ result.value = TRUE
  /\ result.line = LastLine
  /\ result.line >= 2
  /\ IsFenceOpenerAt(0)
  /\ \A j \in 1..LastLine : ~IsCloseTokenAt(j)

\* C4: in Header mode a region returned by findBoundaries(doc, n) starts at
\* h + 1, h the nearest qualifying log heading above n, and ends one line
\* before the first heading at or after h + 1 whose depth is at most the
\* depth of h, or at the last line when there is none.
C4_HeaderBoundaries ==
  (HeaderQuery("findBoundaries") /\ result.value # Null) =>
    LET n == result.line
        logs == {i \in 0..(n - 1) : IsLogHeadingAt(i)}
        h == SetMax(logs)
        enders == {j \in (h + 1)..LastLine :
                     IsHeadingAt(j) /\ HeadingDepthAt(j) <= HeadingDepthAt(h)}
    IN /\ logs # {}
       /\ result.value.start = h + 1
       /\ result.value.end = (IF enders = {} THEN LastLine
                              ELSE SetMin(enders) - 1)

\* C5: in Fence mode findBoundaries(doc, n) is null when line n is not
\* inside a fence; otherwise it is the fence region from the line after the
\* opener covering n to the line before the next bare close token after the
\* opener, or to the last line when the fence is unterminated.
C5_FenceBoundaries ==
  FenceQuery("findBoundaries") =>
    LET n == result.line
        openers == {i \in 0..n : IsFenceOpenerAt(i)}
        o == SetMax(openers)
        closers == {j \in (o + 1)..LastLine : IsCloseTokenAt(j)}
    IN IF ~isInTimestampFence(settings, doc, n)
       THEN result.value = Null
       ELSE /\ openers # {}
            /\ result.value =
                 [start |-> o + 1,
                  end |-> (IF closers = {} THEN LastLine
                           ELSE SetMin(closers) - 1),
                  type |-> "fence"]

\* C5 witness: a content line of a closed fence is queried and the region
\* ends before the close token, above the end of the document.
C5_Witness ==
  /\ FenceQuery("findBoundaries")
  /\ result.value # Null
  /\ result.value.start <= result.line
  /\ result.value.end < LastLine
  /\ IsCloseTokenAt(result.value.end + 1)

\* C6: every region returned by findBoundaries satisfies start <= end.
C6_RegionOrdered ==
  (result.op = "findBoundaries" /\ result.value # Null) =>
    result.value.start <= result.value.end

\* The configuration with the detection mode set to mode.
WithMode(mode) == [settings EXCEPT !.blockIdentifier = mode]

BothQuery(op) ==
  result.op = op /\ settings.blockIdentifier = "both"

\* C15: in Both mode isInRegion(doc, n) is the Header-mode answer or the
\* Fence-mode answer for the same document and line.
C15_BothIsUnion ==
  BothQuery("isInRegion") =>
    result.value
      = (\/ isInTimestampBlock(WithMode("header"), doc, result.line)
         \/ isInTimestampBlock(WithMode("fence"), doc, result.line))

C15_Witness ==
  /\ BothQuery("isInRegion")
  /\ result.value
  /\ isInTimestampBlock(WithMode("fence"), doc, result.line)
  /\ ~isInTimestampBlock(WithMode("header"), doc, result.line)

\* C16: in Both mode findBoundaries returns the Fence-mode region when
\* there is one, else the Header-mode region, and null only when neither
\* mode finds a region.
C16_FenceFirst ==
  BothQuery("findBoundaries") =>
    LET fence == findBlockBoundaries(WithMode("fence"), doc, result.line)
        header == findBlockBoundaries(WithMode("header"), doc, result.line)
    IN /\ fence # Null => result.value = fence /\ result.value.type = "fence"
       /\ (fence = Null /\ header # Null)
            => result.value = header /\ result.value.type = "header"
       /\ result.value = Null <=> (fence = Null /\ header = Null)

C16_Witness ==
  /\ BothQuery("findBoundaries")
  /\ findBlockBoundaries(WithMode("fence"), doc, result.line) # Null
  /\ findBlockBoundaries(WithMode("header"), doc, result.line) # Null
  /\ result.value.type = "fence"

\* The configuration with the literal-text heading matcher.
WithLiteralMatcher == [settings EXCEPT !.useAdvancedHeaderPattern = FALSE]

\* The pattern-based matcher is configured with a pattern that does not
\* compile.
PatternInvalid ==
  /\ settings.useAdvancedHeaderPattern
  /\ settings.headerPattern = InvalidHeaderPattern

\* C22: with a pattern that does not compile, every line is matched as the
\* literal-text matcher matches it, and both queries answer as they do
\* with the literal-text matcher.
C22_PatternFallback ==
  PatternInvalid =>
    /\ \A i \in 0..LastLine :
         matchesHeaderPattern(settings, getLine(doc, i))
           = simpleHeaderMatch(settings, getLine(doc, i))
    /\ result.op = "isInRegion"
         => result.value
              = isInTimestampBlock(WithLiteralMatcher, doc, result.line)
    /\ result.op = "findBoundaries"
         => result.value
              = findBlockBoundaries(WithLiteralMatcher, doc, result.line)

C22_Witness ==
  /\ PatternInvalid
  /\ result.op = "isInRegion"
  /\ result.value
  /\ IsLogHeadingAt(result.line - 1)

\* C25: in every mode isInRegion(doc, n) is true exactly when
\* findBoundaries(doc, n) returns a region.
C25_MembershipIffRegion ==
  /\ result.op = "isInRegion"
       => (result.value
             <=> findBlockBoundaries(settings, doc, result.line) # Null)
  /\ result.op = "findBoundaries"
       => (result.value # Null
             <=> isInTimestampBlock(settings, doc, result.line))

C25_Witness ==
  /\ result.op = "findBoundaries"
  /\ result.value # Null
  /\ isInTimestampBlock(settings, doc, result.line)
  /\ settings.blockIdentifier = "both"

\* C26: a region returned by findBoundaries(doc, n) holds line n.
C26_RegionHoldsLine ==
  (result.op = "findBoundaries" /\ result.value # Null) =>
    (result.value.start <= result.line /\ result.line <= result.value.end)

\* C27: every line of a region returned by findBoundaries is in-region for
\* isInRegion under the same configuration.
C27_RegionLinesInRegion ==
  (result.op = "findBoundaries" /\ result.value # Null) =>
    \A m \in result.value.start..result.value.end :
      isInTimestampBlock(settings, doc, m)

(***************************************************************************)
(* Properties of the auto-stamp controller (checked under Spec).            *)
(***************************************************************************)
\* A step that arms a deferred stamping step / a deferred step that writes.
Arming == Len(deferred') > Len(deferred)

StampWrite == Len(deferred') < Len(deferred) /\ doc' # doc

\* The update being notified is a line-break change.
IsLineBreakChange ==
  \E k \in 1..Len(update.changes) :
    countNewlines(update.changes[k].inserted) > 0

\* Line k is the closing delimiter of a fence.
IsFenceCloserAt(k) ==
  /\ k >= 1
  /\ IsCloseTokenAt(k)
  /\ isInTimestampFence(settings, doc, k - 1)

\* Number of occurrences of the stamp in a line.
RECURSIVE stampCount(_)
stampCount(lineText) ==
  IF lineText = <<>> THEN 0
  ELSE (IF startsWith(lineText, createFullTimestamp(settings)) THEN 1 ELSE 0)
         + stampCount(Tail(lineText))

\* C7: the update listener arms a stamping step for a line-break change
\* only if autoTimestamp is on and both the line the caret left and the new
\* line are in region in the document after the change; when one of the
\* three fails it schedules nothing and leaves document and caret alone.
\* In Fence mode a line break right after a fence's closing delimiter arms
\* nothing.
C7_ArmingConditions ==
  [][ (variant = "cm6" /\ phase = "notify") =>
        LET newLine == cursor.line
            left == newLine - 1
            conds == /\ settings.autoTimestamp
                     /\ left >= 0
                     /\ isInTimestampBlock(settings, doc, left)
                     /\ isInTimestampBlock(settings, doc, newLine)
        IN /\ Arming => (IsLineBreakChange /\ conds)
           /\ ~conds => (deferred' = deferred /\ doc' = doc
                           /\ cursor' = cursor)
           /\ ( /\ IsLineBreakChange
                /\ settings.blockIdentifier = "fence"
                /\ IsFenceCloserAt(left) ) => deferred' = deferred
    ]_vars

\* C7 witness: in Fence mode, with autoTimestamp on, the listener has
\* handled a line break made on the closing delimiter of a fence and
\* nothing is armed.
C7_Witness ==
  /\ variant = "cm6"
  /\ phase = "idle"
  /\ settings.blockIdentifier = "fence"
  /\ settings.autoTimestamp
  /\ IsLineBreakChange
  /\ cursor.line = update.changes[1].fromLine + 1
  /\ IsFenceCloserAt(cursor.line - 1)
  /\ getLine(doc, cursor.line) = <<>>
  /\ deferred = <<>>

\* C8: a stamping step applied to a line that already holds a stamp (with
\* or without a leading list marker) leaves that line unchanged, so no line
\* ever holds two stamps inserted by the controller.
C8_NoDoubleStamp ==
  [][ Len(deferred') < Len(deferred) =>
        \A i \in 0..(lineCount(doc) - 1) :
          stampCount(getLine(doc, i)) >= 1 => getLine(doc', i) = getLine(doc, i)
    ]_vars

\* C9: the stamping write never happens inside the change-notification
\* (or keydown) handler; it happens in a later scheduled step, when the
\* task of the line break is over and the host has no side effect of the
\* line break left to apply.
C9_DeferredWrite ==
  [][ /\ phase \in {"notify", "keydown"} => (doc' = doc /\ cursor' = cursor)
      /\ StampWrite => (phase = "idle" /\ update.hostPending = <<>>)
    ]_vars

\* C9 witness: a line holds the list marker continued by the host followed
\* by the stamp, the caret right after the stamp, and nothing is pending.
C9_Witness ==
  /\ phase = "idle"
  /\ deferred = <<>>
  /\ \E i \in 0..(lineCount(doc) - 1) :
       /\ getLine(doc, i) = <<"-", " ">> \o createFullTimestamp(settings)
       /\ cursor = [line |-> i,
                    ch |-> 2 + Len(createFullTimestamp(settings))]

\* C10 (as claimed): no stamping write is performed while autoTimestamp is
\* off, also not by a step armed before the toggle.
C10_NoWriteWhileOff ==
  [][ StampWrite => settings.autoTimestamp ]_vars

\* C10 (amended): no stamping step is armed while autoTimestamp is off.
C10_NoArmWhileOff ==
  [][ Arming => settings.autoTimestamp ]_vars

\* C10 witness: a step armed before the toggle is still queued while
\* autoTimestamp is off.
C10_Witness ==
  /\ deferred # <<>>
  /\ ~settings.autoTimestamp

(***************************************************************************)
(* Properties of the stamp detection and the line rewriting (checked under  *)
(* SpecRewrite).                                                            *)
(***************************************************************************)
\* The last call was insertTimestampOnLine.
LineCall == result.op = "insertTimestampOnLine"

\* The last call was one of the two stamping functions.
StampCall ==
  result.op \in {"insertTimestampOnLine", "insertTimestampOnNewLine"}

\* A bullet or an ordinal: '-', '*', '+', or digits followed by '.'.
IsMarkerToken(m) ==
  \/ m \in { <<"-">>, <<"*">>, <<"+">> }
  \/ /\ Len(m) >= 2
     /\ m[Len(m)] = "."
     /\ \A i \in 1..(Len(m) - 1) : IsDigit(m[i])

\* The lengths k such that the first k characters of content are a marker
\* token and all the whitespace that follows it.
MarkerEnds(content) ==
  { k \in 1..Len(content) :
      \E j \in 1..k :
        /\ IsMarkerToken(SubSeq(content, 1, j))
        /\ \A i \in (j + 1)..k : IsWS(content[i])
        /\ k < Len(content) => ~IsWS(content[k + 1]) }

\* Length of the list marker that opens content, 0 when there is none.
MarkerLength(content) ==
  IF MarkerEnds(content) = {} THEN 0 ELSE SetMin(MarkerEnds(content))

\* Length of the leading whitespace of a line.
IndentLength(line) == Len(line) - Len(trimStart(line))

\* The line with the stamp put in after its first p characters.
StampedAt(line, p) ==
  SubSeq(line, 1, p) \o createFullTimestamp(settings)
    \o SubSeq(line, p + 1, Len(line))

IsBlank(line) == \A i \in 1..Len(line) : IsWS(line[i])

\* C11: a stamping call on a line for which lineHasTimestamp is true
\* returns without a write, and the line is still the same text.
C11_StampedLineUntouched ==
  (StampCall /\ lineHasTimestamp(settings, result.line))
    => /\ ~result.w.write
       /\ getLine(doc, 0) = result.line

C11_Witness ==
  /\ LineCall
  /\ actions = 2
  /\ lineHasTimestamp(settings, result.line)
  /\ getLine(doc, 0) = result.line

\* C12 as stated: every line that opens (after its indentation) with a
\* list marker is rewritten to indentation + marker + stamp + the content
\* after the marker.
C12_MarkerRuleAnyLine ==
  (LineCall /\ MarkerLength(trimStart(result.line)) > 0)
    => /\ result.w.write
       /\ result.w.text
            = StampedAt(result.line,
                        IndentLength(result.line)
                          + MarkerLength(trimStart(result.line)))

\* C12, amended: every line without a detected stamp that opens (after its
\* indentation) with a list marker is rewritten to indentation + marker +
\* stamp + the content after the marker; a bare bullet is such a line.
C12_MarkerRule ==
  (/\ LineCall
   /\ ~lineHasTimestamp(settings, result.line)
   /\ MarkerLength(trimStart(result.line)) > 0)
    => /\ result.w.write
       /\ result.w.text
            = StampedAt(result.line,
                        IndentLength(result.line)
                          + MarkerLength(trimStart(result.line)))

C12_Witness ==
  /\ LineCall
  /\ result.line = <<"-", " ">>
  /\ getLine(doc, 0) = <<"-", " ">> \o createFullTimestamp(settings)

\* C13: a line without a detected stamp is rewritten to a text that opens
\* with the indentation of the line and that is the line with one stamp
\* put in at one place.
C13_ContentPreserved ==
  (LineCall /\ ~lineHasTimestamp(settings, result.line))
    => /\ result.w.write
       /\ startsWith(result.w.text, leadingWhitespaceOf(result.line))
       /\ \E p \in 0..Len(result.line) :
            result.w.text = StampedAt(result.line, p)
       /\ getLine(doc, 0) = result.w.text

C13_Witness ==
  /\ LineCall
  /\ result.line = <<" ", "a">>
  /\ getLine(doc, 0) = <<" ">> \o createFullTimestamp(settings) \o <<"a">>

\* C14: lineHasTimestamp is true only for a line that, without its
\* indentation, starts with a prefix that is not empty and, when the suffix
\* is not empty, holds the suffix at one of the first 50 positions after
\* the end of the prefix; with an empty prefix it is false.
C14_DetectionNecessary ==
  result.op = "lineHasTimestamp"
    => LET trimmed == trimStart(result.line)
           prefix == settings.timestampPrefix
           suffix == settings.timestampSuffix
       IN /\ result.value
               => /\ prefix # <<>>
                  /\ startsWith(trimmed, prefix)
                  /\ suffix # <<>>
                       => \E k \in 0..(SuffixSearchWindow - 1) :
                            SubSeq(trimmed, Len(prefix) + k + 1,
                                   Len(prefix) + k + Len(suffix)) = suffix
          /\ prefix = <<>> => ~result.value

C14_Witness ==
  /\ result.op = "lineHasTimestamp"
  /\ settings.timestampPrefix = <<>>
  /\ actions = 1
  /\ startsWith(result.line, createFullTimestamp(settings))
  /\ ~result.value

C20_CaretAfterStamp ==
  (LineCall /\ result.w.write)
    => LET content == trimStart(result.line)
           k == MarkerLength(content)
           stamp == createFullTimestamp(settings)
           text == getLine(doc, 0)
       IN /\ cursor.line = 0
          /\ cursor.ch = IndentLength(result.line) + k + Len(stamp)
          /\ cursor.ch <= Len(text)
          /\ SubSeq(text, cursor.ch - Len(stamp) + 1, cursor.ch) = stamp
          /\ SubSeq(text, cursor.ch + 1, Len(text))
               = SubSeq(content, k + 1, Len(content))

C20_Witness ==
  /\ LineCall
  /\ result.w.write
  /\ result.line = <<" ", "-", " ", "a">>
  /\ cursor.ch = 3 + Len(createFullTimestamp(settings))

(***************************************************************************)
(* Properties of the deferred step (checked under Spec and SpecLive).       *)
(***************************************************************************)
\* A queued callback runs.
StepRuns == Len(deferred') < Len(deferred)

\* C17: whenever a stamping step is queued, the queue is later empty with no
\* task running: every queued step runs, whether it writes or not, and the
\* controller is idle again.
C17_StepEventuallyRuns ==
  (deferred # <<>>) ~> (deferred = <<>> /\ phase = "idle")

\* A step is queued for a line that holds a stamp: it will run and return
\* without a write.
C17_Witness ==
  /\ deferred # <<>>
  /\ Head(deferred).kind = "raf"
  /\ Head(deferred).lineNumber < lineCount(doc)
  /\ lineHasTimestamp(settings, getLine(doc, Head(deferred).lineNumber))

C21_CommandIsRewrite ==
  result.op = "timestamp-current-line" =>
    LET r == insertTimestampOnLine(settings, result.doc, result.cursor.line)
    IN getLine(doc, result.cursor.line)
         = (IF r.write THEN r.text
            ELSE getLine(result.doc, result.cursor.line))

\* The line above line n is the heading or the fence opener of a template.
TemplateOpensAbove(n) ==
  /\ n >= 1
  /\ \/ /\ result.op = "insert-timestamp-block-header"
        /\ getLine(doc, n - 1)
             = (IF settings.headerText # <<>> THEN settings.headerText
                ELSE HeaderTextLog)
     \/ /\ result.op = "insert-timestamp-block-fence"
        /\ getLine(doc, n - 1) = fenceStart(settings)

\* C24: after either template command the caret is on the line below the
\* inserted heading or fence opener, that line starts with the stamp, and
\* the caret is at the end of the stamp.
C24_TemplateCaret ==
  result.op \in {"insert-timestamp-block-header",
                 "insert-timestamp-block-fence"}
    => /\ cursor.line = result.cursor.line + 2
       /\ TemplateOpensAbove(cursor.line)
       /\ startsWith(getLine(doc, cursor.line), createFullTimestamp(settings))
       /\ cursor.ch = Len(createFullTimestamp(settings))

(***************************************************************************)
(* Properties of loadSettings (checked under SpecSettings).                 *)
(***************************************************************************)
\* C23: after loadSettings every key of the defaults has a value: the
\* persisted value when the persisted record holds the key, the default
\* when it does not or when there is no persisted record.
C23_LoadDefaults ==
  result.op = "loadSettings" =>
    \A k \in DOMAIN DEFAULT_SETTINGS :
      /\ k \in DOMAIN settings
      /\ settings[k]
           = (IF result.data # Null /\ k \in DOMAIN result.data
              THEN result.data[k]
              ELSE DEFAULT_SETTINGS[k])

\* A record with some keys only has been loaded.
C23_Witness ==
  /\ result.op = "loadSettings"
  /\ result.data # Null
  /\ DOMAIN result.data = {"timestampPrefix", "autoTimestamp"}
  /\ settings.timestampPrefix = <<>>
  /\ settings.timestampSuffix = DEFAULT_SETTINGS.timestampSuffix

(***************************************************************************)
(* Properties of the stamping write (checked under SpecChain).              *)
(***************************************************************************)
\* The update listener is being told of a change that puts in a stamp: a
\* write of the controller.
StampNotified ==
  /\ variant = "cm6"
  /\ phase = "notify"
  /\ \E k \in 1..Len(update.changes) :
       indexOf(update.changes[k].inserted, createFullTimestamp(settings), 0)
         >= 0

\* C28: the update listener queues no step when it is told of a stamping
\* write of the controller.
C28_WriteArmsNothing ==
  [][ StampNotified => deferred' = deferred ]_vars

\* C29: a step queued for a line leaves the number of lines and the text
\* of every other line as they were.
C29_OnlyTargetLine ==
  [][ (StepRuns /\ Head(deferred).kind = "raf")
        => /\ Len(doc') = Len(doc)
           /\ \A i \in 1..Len(doc) :
                i # Head(deferred).lineNumber + 1 => doc'[i] = doc[i] ]_vars

\* A matching log heading is above line n with no heading in between.
UnderLogHeading(n) ==
  \E h \in 0..(n - 1) :
    /\ IsLogHeadingAt(h)
    /\ \A j \in (h + 1)..(n - 1) : ~IsHeadingAt(j)

\* C30: in Header mode, when the update listener is told of a line break
\* of the user that leaves a log heading line above the new line, the
\* heading line is in-region exactly when a log heading is above it with no
\* heading in between, and a step is queued exactly in that case (with
\* autoTimestamp on).
C30_BreakAtHeading ==
  [][ (/\ variant = "cm6"
       /\ phase = "notify"
       /\ settings.blockIdentifier = "header"
       /\ IsLineBreakChange
       /\ ~StampNotified
       /\ cursor.line >= 1
       /\ IsLogHeadingAt(cursor.line - 1))
        => /\ isInTimestampBlock(settings, doc, cursor.line - 1)
                <=> UnderLogHeading(cursor.line - 1)
           /\ Arming
                <=> (settings.autoTimestamp
                       /\ UnderLogHeading(cursor.line - 1)) ]_vars

\* A step is queued for the line below a log heading line.
C30_Witness ==
  /\ settings.blockIdentifier = "header"
  /\ deferred # <<>>
  /\ Head(deferred).kind = "raf"
  /\ Head(deferred).lineNumber >= 1
  /\ Head(deferred).lineNumber < lineCount(doc)
  /\ IsLogHeadingAt(Head(deferred).lineNumber - 1)
  /\ getLine(doc, Head(deferred).lineNumber) = <<>>

====
